---- MODULE Spec2Model ----
(***************************************************************************)
(* A model of the One Piece TCG portfolio API (src/backend/main.py, with   *)
(* the variant handlers of src/main.py): the four document collections,    *)
(* the CRUD handlers that write them and the two analytics handlers        *)
(* (portfolio_summary, trends_timeseries) that read them.                  *)
(*                                                                         *)
(* Money is a Python float in the code.  The model computes with exact     *)
(* rationals <<numerator, denominator>> in lowest terms, so every          *)
(* multiplication and division is the code's, without rounding.            *)
(*                                                                         *)
(* An ObjectId is <<collection, n>>; its string form is                    *)
(* <<collection, n, casing>>.  None is <<>>.                               *)
(***************************************************************************)
EXTENDS Integers, Sequences, FiniteSets, TLC

VARIABLES catalogitem, collectionitem, transaction, pricesnapshot,
          inserted, now, resp, run

vars == <<catalogitem, collectionitem, transaction, pricesnapshot,
          inserted, now, resp, run>>

store == <<catalogitem, collectionitem, transaction, pricesnapshot>>

\* No portfolio_summary request is under way.
Idle == [pc |-> "idle"]

-----------------------------------------------------------------------------
(* Exact rational arithmetic standing for Python's float arithmetic.       *)

Abs(x) == IF x < 0 THEN -x ELSE x

RECURSIVE GCD(_, _)
GCD(a, b) == IF b = 0 THEN a ELSE GCD(b, a % b)

Rat(n, d) ==
  LET g == GCD(Abs(n), Abs(d))
      s == IF d < 0 THEN -1 ELSE 1
  IN  <<(s * n) \div g, (s * d) \div g>>

Int2R(n) == <<n, 1>>
RZero == <<0, 1>>
RAdd(x, y) == Rat(x[1] * y[2] + y[1] * x[2], x[2] * y[2])
RSub(x, y) == Rat(x[1] * y[2] - y[1] * x[2], x[2] * y[2])
RMul(x, y) == Rat(x[1] * y[1], x[2] * y[2])
RDiv(x, y) == Rat(x[1] * y[2], x[2] * y[1])
RNeg(x) == <<-x[1], x[2]>>
RAbs(x) == <<Abs(x[1]), x[2]>>
RLeq(x, y) == x[1] * y[2] <= y[1] * x[2]
\* Python truthiness of a float: 0.0 is falsy.
Truthy(x) == x[1] # 0

-----------------------------------------------------------------------------
(* Identifiers.                                                            *)

None == <<>>
\* None where the value is otherwise a string (JSON null).
Null == "null"

\* A datetime is <<epoch seconds>>, so that it can be compared to None.
datetime(t) == <<t>>
timestamp(dt) == dt[1]
Malformed == <<"zz">>

\* str(ObjectId): lower-case hex.
StrOfOid(o) == <<o[1], o[2], "lower">>
\* ObjectId(id_str) accepts either letter case of the 24 hex digits.
IsObjectIdStr(s) == Len(s) = 3
ObjectId(s) == <<s[1], s[2]>>
\* oid(id_str): the ObjectId, or the 400 raised for a malformed string.
oid_ok(id_str) == IsObjectIdStr(id_str)
oid(id_str) == ObjectId(id_str)

-----------------------------------------------------------------------------
(* Currency conversion.                                                    *)

RATES ==
  [EUR |-> Rat(1, 1), USD |-> Rat(108, 100), GBP |-> Rat(86, 100),
   JPY |-> Rat(162, 1), BTC |-> Rat(1, 60000), ETH |-> Rat(1, 3000)]

\* The strings of the model that str.upper() changes, with its result.
LowerToUpper ==
  [eur |-> "EUR", euR |-> "EUR", eUr |-> "EUR", eUR |-> "EUR", Eur |-> "EUR",
   EuR |-> "EUR", EUr |-> "EUR", usd |-> "USD", usD |-> "USD", uSd |-> "USD",
   uSD |-> "USD", Usd |-> "USD", UsD |-> "USD", USd |-> "USD", gbp |-> "GBP",
   gbP |-> "GBP", gBp |-> "GBP", gBP |-> "GBP", Gbp |-> "GBP", GbP |-> "GBP",
   GBp |-> "GBP", xxx |-> "XXX", xxX |-> "XXX", xXx |-> "XXX", xXX |-> "XXX",
   Xxx |-> "XXX", XxX |-> "XXX", XXx |-> "XXX"]

\* str.upper() on the currency codes of the model.
upper(s) == IF s \in DOMAIN LowerToUpper THEN LowerToUpper[s] ELSE s

\* dict.get(key, default)
Get(d, key, default) == IF key \in DOMAIN d THEN d[key] ELSE default

\* convert looking the code up as it is written.
convert_exact(amount_eur, to_currency) ==
  IF to_currency \notin DOMAIN RATES
    THEN amount_eur
    ELSE RMul(amount_eur, RATES[to_currency])

convert(amount_eur, to_currency) ==
  LET code == upper(to_currency)
  IN  IF code \notin DOMAIN RATES
        THEN amount_eur
        ELSE RMul(amount_eur, RATES[code])

-----------------------------------------------------------------------------
(* Documents, responses.                                                   *)

\* to_str_id(doc): _id as a string, datetimes in ISO format.
isinstance_datetime(v) == Len(v) = 1
isoformat(dt) == <<"iso", timestamp(dt)>>
DateFields == {"purchase_date", "taken_at", "date"}
to_str_id(doc) ==
  [k \in DOMAIN doc |->
     IF k = "_id" THEN StrOfOid(doc[k])
     ELSE IF k \in DateFields /\ isinstance_datetime(doc[k])
       THEN isoformat(doc[k])
     ELSE doc[k]]

\* The response to the last request served.
Ok(op, status, body) == [op |-> op, status |-> status, body |-> body]

\* The response of an analytics handler, with the request it answers.
OkReq(op, req, status, body) ==
  [op |-> op, req |-> req, status |-> status, body |-> body]

\* raise HTTPException(status, detail); also the 422 of request validation.
HTTPException(op, status, detail) ==
  [op |-> op, status |-> status, body |-> detail]

\* $set: the fields of update overwrite or extend the document.
SetFields(doc, update) ==
  [k \in DOMAIN doc \cup DOMAIN update |->
     IF k \in DOMAIN update THEN update[k] ELSE doc[k]]

\* create_document(collection, payload): the new _id and the stored document.
NewOid(coll) == <<coll, inserted[coll] + 1>>
create_document(coll, data) == SetFields(data, [_id |-> NewOid(coll)])

\* find_one({"_id": o}) finds a document.
Exists(docs, o) == \E i \in 1..Len(docs) : docs[i]._id = o

-----------------------------------------------------------------------------
(* Request models (schemas.py): defaults, then the Field constraints.      *)

Categories == {"card_raw", "card_graded", "sealed"}
Conditions == {"Mint", "Near Mint", "Excellent", "Good", "Played", "Poor"}

CollectionItem(payload) ==
  SetFields([catalog_id |-> None, condition |-> Null, is_graded |-> FALSE,
             quantity |-> 1, purchase_price |-> RZero, currency |-> "EUR",
             purchase_date |-> None], payload)

CollectionItem_valid(m) ==
  /\ {"category", "name"} \subseteq DOMAIN m
  /\ m.category \in Categories
  /\ m.condition = Null \/ m.condition \in Conditions
  /\ m.quantity >= 1
  /\ RLeq(RZero, m.purchase_price)

Transaction(payload) ==
  SetFields([collection_id |-> None, quantity |-> 1, currency |-> "EUR",
             date |-> datetime(now)], payload)

Transaction_valid(m) ==
  /\ {"type", "price_total"} \subseteq DOMAIN m
  /\ m.type \in {"buy", "sell"}
  /\ m.quantity >= 1
  /\ RLeq(RZero, m.price_total)

PriceSnapshot(payload) ==
  SetFields([currency |-> "EUR", source |-> "mock", taken_at |-> datetime(now)], payload)

PriceSnapshot_valid(m) ==
  /\ {"catalog_id", "price"} \subseteq DOMAIN m
  /\ m.catalog_id # None
  /\ RLeq(RZero, m.price)

-----------------------------------------------------------------------------
(* The write handlers.                                                     *)

Insert(coll) == inserted' = [inserted EXCEPT ![coll] = @ + 1]

add_catalog_item(payload) ==
  LET doc == create_document("catalogitem", payload)
  IN  /\ catalogitem' = Append(catalogitem, doc)
      /\ Insert("catalogitem")
      /\ resp' = Ok("add_catalog_item", 201, to_str_id(doc))
      /\ UNCHANGED <<collectionitem, transaction, pricesnapshot, now, run>>

\* add_collection_item without the look-up of the catalog entry.
add_collection_item_unchecked(payload) ==
  LET m == CollectionItem(payload)
      doc == create_document("collectionitem", m)
      Reject(status, detail) ==
        /\ resp' = HTTPException("add_collection_item", status, detail)
        /\ UNCHANGED <<catalogitem, collectionitem, transaction, pricesnapshot,
                       inserted, now, run>>
  IN  IF ~CollectionItem_valid(m)
        THEN Reject(422, "validation error")
      ELSE IF m.catalog_id # None /\ ~oid_ok(m.catalog_id)
        THEN Reject(400, "Invalid id format")
      ELSE /\ collectionitem' = Append(collectionitem, doc)
           /\ Insert("collectionitem")
           /\ resp' = Ok("add_collection_item", 201, to_str_id(doc))
           /\ UNCHANGED <<catalogitem, transaction, pricesnapshot, now, run>>

add_collection_item(payload) ==
  LET m == CollectionItem(payload)
      doc == create_document("collectionitem", m)
      Reject(status, detail) ==
        /\ resp' = HTTPException("add_collection_item", status, detail)
        /\ UNCHANGED <<catalogitem, collectionitem, transaction, pricesnapshot,
                       inserted, now, run>>
  IN  IF ~CollectionItem_valid(m)
        THEN Reject(422, "validation error")
      ELSE IF m.catalog_id # None /\ ~oid_ok(m.catalog_id)
        THEN Reject(400, "Invalid id format")
      ELSE IF m.catalog_id # None /\ ~Exists(catalogitem, oid(m.catalog_id))
        THEN Reject(400, "catalog_id not found")
      ELSE /\ collectionitem' = Append(collectionitem, doc)
           /\ Insert("collectionitem")
           /\ resp' = Ok("add_collection_item", 201, to_str_id(doc))
           /\ UNCHANGED <<catalogitem, transaction, pricesnapshot, now, run>>

delete_collection_item(item_id) ==
  LET Reject(status, detail) ==
        /\ resp' = HTTPException("delete_collection_item", status, detail)
        /\ UNCHANGED <<catalogitem, collectionitem, transaction, pricesnapshot,
                       inserted, now, run>>
  IN  IF ~oid_ok(item_id)
        THEN Reject(400, "Invalid id format")
      ELSE IF ~Exists(collectionitem, oid(item_id))
        THEN Reject(404, "Item not found")
      ELSE /\ collectionitem' =
                SelectSeq(collectionitem, LAMBDA d : d._id # oid(item_id))
           /\ resp' = Ok("delete_collection_item", 200, [ok |-> TRUE])
           /\ UNCHANGED <<catalogitem, transaction, pricesnapshot, inserted, now, run>>

\* A date string of a JSON payload is <<"str", "iso", t>> (well formed, the
\* instant t) or <<"str", "bad", 0>>.
isinstance_str(v) == Len(v) = 3 /\ v[1] = "str"
fromisoformat_ok(v) == v[2] = "iso"
fromisoformat(v) == datetime(v[3])

Restrict(payload, allowed) == [k \in DOMAIN payload \cap allowed |-> payload[k]]

\* update_one({"_id": o}, {"$set": update}) and the find_one after it.
UpdateOne(docs, o, update) ==
  [i \in 1..Len(docs) |->
     IF docs[i]._id = o THEN SetFields(docs[i], update) ELSE docs[i]]

FindOne(docs, o) == docs[CHOOSE i \in 1..Len(docs) : docs[i]._id = o]

allowed_fields ==
  {"purchase_price", "purchase_date", "condition", "is_graded", "grade_service",
   "grade_score", "grade_label", "quantity", "currency"}

\* src/backend/main.py
\* update_collection_item setting every field of the payload.
update_collection_item_unrestricted(item_id, payload) ==
  IF DOMAIN payload = {} \/ ~oid_ok(item_id)
       \/ ~Exists(collectionitem, oid(item_id))
    THEN /\ resp' = HTTPException("update_collection_item", 400, "rejected")
         /\ UNCHANGED <<catalogitem, collectionitem, transaction, pricesnapshot,
                        inserted, now, run>>
    ELSE /\ collectionitem' = UpdateOne(collectionitem, oid(item_id), payload)
         /\ resp' = Ok("update_collection_item", 200,
                       to_str_id(FindOne(collectionitem', oid(item_id))))
         /\ UNCHANGED <<catalogitem, transaction, pricesnapshot, inserted, now,
                        run>>

update_collection_item(item_id, payload) ==
  LET update0 == Restrict(payload, allowed_fields)
      parse == "purchase_date" \in DOMAIN update0
                 /\ isinstance_str(update0.purchase_date)
      update == IF parse /\ fromisoformat_ok(update0.purchase_date)
                  THEN SetFields(update0,
                         [purchase_date |-> fromisoformat(update0.purchase_date)])
                  ELSE update0
      Reject(status, detail) ==
        /\ resp' = HTTPException("update_collection_item", status, detail)
        /\ UNCHANGED <<catalogitem, collectionitem, transaction, pricesnapshot,
                       inserted, now, run>>
  IN  IF DOMAIN update0 = {}
        THEN Reject(400, "No valid fields to update")
      ELSE IF parse /\ ~fromisoformat_ok(update0.purchase_date)
        THEN Reject(400, "Invalid purchase_date format, use ISO 8601")
      ELSE IF ~oid_ok(item_id)
        THEN Reject(400, "Invalid id format")
      ELSE IF ~Exists(collectionitem, oid(item_id))
        THEN Reject(404, "Item not found")
      ELSE /\ collectionitem' = UpdateOne(collectionitem, oid(item_id), update)
           /\ resp' = Ok("update_collection_item", 200,
                         to_str_id(FindOne(collectionitem', oid(item_id))))
           /\ UNCHANGED <<catalogitem, transaction, pricesnapshot, inserted, now, run>>

allowed == {"quantity", "purchase_price", "currency", "grade", "purchase_date"}

\* src/main.py: another allowed set, and no parsing of purchase_date.
update_collection_item_main(item_id, payload) ==
  LET update_data == Restrict(payload, allowed)
      Reject(status, detail) ==
        /\ resp' = HTTPException("update_collection_item_main", status, detail)
        /\ UNCHANGED <<catalogitem, collectionitem, transaction, pricesnapshot,
                       inserted, now, run>>
  IN  IF DOMAIN update_data = {}
        THEN Reject(400, "No valid fields to update")
      ELSE IF ~oid_ok(item_id)
        THEN Reject(400, "Invalid id format")
      ELSE IF ~Exists(collectionitem, oid(item_id))
        THEN Reject(404, "Item not found")
      ELSE /\ collectionitem' = UpdateOne(collectionitem, oid(item_id), update_data)
           /\ resp' = Ok("update_collection_item_main", 200,
                         to_str_id(FindOne(collectionitem', oid(item_id))))
           /\ UNCHANGED <<catalogitem, transaction, pricesnapshot, inserted, now, run>>

add_transaction(payload) ==
  LET m == Transaction(payload)
      doc == create_document("transaction", m)
      Reject(status, detail) ==
        /\ resp' = HTTPException("add_transaction", status, detail)
        /\ UNCHANGED <<catalogitem, collectionitem, transaction, pricesnapshot,
                       inserted, now, run>>
  IN  IF ~Transaction_valid(m)
        THEN Reject(422, "validation error")
      ELSE IF m.collection_id # None /\ ~oid_ok(m.collection_id)
        THEN Reject(400, "Invalid id format")
      ELSE IF m.collection_id # None /\ ~Exists(collectionitem, oid(m.collection_id))
        THEN Reject(400, "collection_id not found")
      ELSE /\ transaction' = Append(transaction, doc)
           /\ Insert("transaction")
           /\ resp' = Ok("add_transaction", 201, to_str_id(doc))
           /\ UNCHANGED <<catalogitem, collectionitem, pricesnapshot, now, run>>

add_price_snapshot(payload) ==
  LET m == PriceSnapshot(payload)
      doc == create_document("pricesnapshot", m)
      Reject(status, detail) ==
        /\ resp' = HTTPException("add_price_snapshot", status, detail)
        /\ UNCHANGED <<catalogitem, collectionitem, transaction, pricesnapshot,
                       inserted, now, run>>
  IN  IF ~PriceSnapshot_valid(m)
        THEN Reject(422, "validation error")
      ELSE IF ~oid_ok(m.catalog_id)
        THEN Reject(400, "Invalid id format")
      ELSE IF ~Exists(catalogitem, oid(m.catalog_id))
        THEN Reject(400, "catalog_id not found")
      ELSE /\ pricesnapshot' = Append(pricesnapshot, doc)
           /\ Insert("pricesnapshot")
           /\ resp' = Ok("add_price_snapshot", 201, to_str_id(doc))
           /\ UNCHANGED <<catalogitem, collectionitem, transaction, now, run>>

-----------------------------------------------------------------------------
(* Queries on the snapshot collection.                                     *)

Min(a, b) == IF a < b THEN a ELSE b

\* The order MongoDB leaves open between documents of equal sort key: the
\* engine may return them in either insertion order.
TieBreaks == {"first", "last"}

\* find({"catalog_id": cid, "currency": currency}).sort("taken_at", -1)
\*   .limit(n), as a list.
find_latest(cid, currency, n, tb) ==
  LET M == {i \in 1..Len(pricesnapshot) :
              /\ pricesnapshot[i].catalog_id = cid
              /\ pricesnapshot[i].currency = currency}
      Before(i, j) ==
        \/ timestamp(pricesnapshot[i].taken_at) > timestamp(pricesnapshot[j].taken_at)
        \/ /\ pricesnapshot[i].taken_at = pricesnapshot[j].taken_at
           /\ IF tb = "first" THEN i < j ELSE i > j
      rank(i) == Cardinality({j \in M : Before(j, i)})
      at(r) == pricesnapshot[CHOOSE i \in M : rank(i) = r - 1]
      k == Min(n, Cardinality(M))
  IN  IF k = 0 THEN <<>>
      ELSE IF k = 1 THEN <<at(1)>>
      ELSE <<at(1)>> \o [r \in 1..(k - 1) |-> at(r + 1)]

-----------------------------------------------------------------------------
(* portfolio_summary.                                                      *)

TopN == 5

\* Python truthiness of the catalog_id of a holding (None and "" are falsy).
HasCatalog(h) == h.catalog_id # None

\* An empty dict.
EmptyDict == <<>>

\* The price cache: latest price by catalog_id in the requested currency,
\* built by the loop over the holdings from holding i on.
RECURSIVE latest_by_catalog(_, _, _, _, _)
latest_by_catalog(holdings, i, cache, currency, tb) ==
  IF i > Len(holdings) THEN cache
  ELSE LET catalog_id == holdings[i].catalog_id
       IN  IF ~HasCatalog(holdings[i]) \/ catalog_id \in DOMAIN cache
             THEN latest_by_catalog(holdings, i + 1, cache, currency, tb)
             ELSE LET snap == find_latest(catalog_id, currency, 1, tb)
                      price == IF Len(snap) > 0 THEN snap[1].price ELSE RZero
                  IN  latest_by_catalog(holdings, i + 1,
                                        cache @@ (catalog_id :> price),
                                        currency, tb)

\* change_of relative to the latest price instead of the previous one.
change_of_over_latest(snaps) ==
  IF Len(snaps) = 2 /\ Truthy(snaps[2].price) /\ Truthy(snaps[1].price)
    THEN RDiv(RSub(snaps[1].price, snaps[2].price), snaps[1].price)
    ELSE RZero

change_of(snaps) ==
  IF Len(snaps) = 2 /\ Truthy(snaps[2].price)
    THEN RDiv(RSub(snaps[1].price, snaps[2].price), snaps[2].price)
    ELSE RZero

\* The loop over the keys of the price cache.
RECURSIVE change24(_, _, _, _)
change24(keys, change, currency, tb) ==
  IF keys = {} THEN change
  ELSE LET cid == CHOOSE k \in keys : TRUE
       IN  change24(keys \ {cid},
                    change @@ (cid :> change_of(find_latest(cid, currency, 2, tb))),
                    currency, tb)

\* cost = float(h.get("purchase_price", 0.0)) * qty
cost_of(h) == RMul(h.purchase_price, Int2R(h.quantity))

\* cost_eur_of multiplying by the rate instead of dividing by it.
cost_eur_of_multiplied(h) ==
  IF h.currency = "EUR"
    THEN cost_of(h)
    ELSE RMul(cost_of(h), Get(RATES, h.currency, Rat(1, 1)))

\* The term added to total_cost_eur for one holding.
cost_eur_of(h) ==
  IF h.currency = "EUR"
    THEN cost_of(h)
    ELSE RDiv(cost_of(h), Get(RATES, h.currency, Rat(1, 1)))

item_summary(h, cache, change) ==
  LET current_price == Get(cache, h.catalog_id, RZero)
      current_val == RMul(current_price, Int2R(h.quantity))
  IN  [item |-> to_str_id(h),
       current_price |-> current_price,
       current_value |-> current_val,
       unrealized |-> RSub(current_val, cost_of(h)),
       change24 |-> Get(change, h.catalog_id, RZero)]

\* The loop over the holdings, from holding i on: the line items, and the
\* two totals.
RECURSIVE items_from(_, _, _, _)
items_from(holdings, i, cache, change) ==
  IF i > Len(holdings) THEN <<>>
  ELSE <<item_summary(holdings[i], cache, change)>>
         \o items_from(holdings, i + 1, cache, change)

RECURSIVE total_cost_from(_, _)
total_cost_from(holdings, i) ==
  IF i > Len(holdings) THEN RZero
  ELSE RAdd(cost_eur_of(holdings[i]), total_cost_from(holdings, i + 1))

RECURSIVE total_value_from(_, _)
total_value_from(items, i) ==
  IF i > Len(items) THEN RZero
  ELSE RAdd(items[i].current_value, total_value_from(items, i + 1))

mover_key(x) == RAbs(RMul(x.current_value, x.change24))

\* insert_desc placing an element before the elements of equal key.
insert_desc_unstable(x, s) ==
  LET before == {i \in 1..Len(s) :
                   ~RLeq(mover_key(s[i]), mover_key(x))}
      k == Cardinality(before)
  IN  SubSeq(s, 1, k) \o <<x>> \o SubSeq(s, k + 1, Len(s))

\* sorted(items, key=..., reverse=True): a stable sort, descending; an
\* element goes after every element already placed whose key is not smaller.
insert_desc(x, s) ==
  LET before == {i \in 1..Len(s) : RLeq(mover_key(x), mover_key(s[i]))}
      k == Cardinality(before)
  IN  \* s is sorted descending, so `before` is a prefix of its indices
      SubSeq(s, 1, k) \o <<x>> \o SubSeq(s, k + 1, Len(s))

RECURSIVE sorted_desc(_, _)
sorted_desc(items, n) ==
  IF n = 0 THEN <<>> ELSE insert_desc(items[n], sorted_desc(items, n - 1))

biggest_movers(items) ==
  LET s == sorted_desc(items, Len(items))
  IN  SubSeq(s, 1, Min(TopN, Len(s)))

\* The loop over the holdings, the movers and the returned data, from the
\* holdings read at the start and the two dicts.
summary_result(currency, holdings, cache, change) ==
  LET items_summary == items_from(holdings, 1, cache, change)
      total_cost_eur == total_cost_from(holdings, 1)
      total_value_eur == total_value_from(items_summary, 1)
  IN  [currency |-> currency,
       total_cost |-> convert(total_cost_eur, currency),
       total_value |-> convert(total_value_eur, currency),
       unrealized_pnl |-> convert(RSub(total_value_eur, total_cost_eur), currency),
       items |-> items_summary,
       biggest_movers |-> biggest_movers(items_summary)]

portfolio_summary_data(currency, tb1, tb2) ==
  LET holdings == collectionitem
      cache == latest_by_catalog(holdings, 1, EmptyDict, currency, tb1)
      change == change24(DOMAIN cache, EmptyDict, currency, tb2)
  IN  summary_result(currency, holdings, cache, change)

\* portfolio_summary recording a snapshot of price 0 for a catalog reference
\* that has none in the requested currency.
portfolio_summary_recording(currency, tb1, tb2) ==
  LET missing == {i \in 1..Len(collectionitem) :
                    /\ HasCatalog(collectionitem[i])
                    /\ find_latest(collectionitem[i].catalog_id, currency, 1, tb1)
                         = <<>>}
      first == CHOOSE i \in missing : \A j \in missing : i <= j
      doc == create_document("pricesnapshot",
               [catalog_id |-> collectionitem[first].catalog_id,
                currency |-> currency, price |-> RZero, source |-> "mock_live",
                taken_at |-> datetime(now)])
  IN  /\ resp' = OkReq("portfolio_summary", [currency |-> currency], 200,
                       portfolio_summary_data(currency, tb1, tb2))
      /\ IF missing = {}
           THEN UNCHANGED <<pricesnapshot, inserted>>
           ELSE pricesnapshot' = Append(pricesnapshot, doc) /\ Insert("pricesnapshot")
      /\ UNCHANGED <<catalogitem, collectionitem, transaction, now, run>>

\* portfolio_summary reading snap[0] without the test for an empty result.
portfolio_summary_unguarded(currency, tb1, tb2) ==
  /\ resp' = IF \E i \in 1..Len(collectionitem) :
                  /\ HasCatalog(collectionitem[i])
                  /\ find_latest(collectionitem[i].catalog_id, currency, 1, tb1)
                       = <<>>
               THEN OkReq("portfolio_summary", [currency |-> currency], 500,
                          "Internal Server Error")
               ELSE OkReq("portfolio_summary", [currency |-> currency], 200,
                          portfolio_summary_data(currency, tb1, tb2))
  /\ UNCHANGED <<catalogitem, collectionitem, transaction, pricesnapshot,
                 inserted, now, run>>

portfolio_summary(currency, tb1, tb2) ==
  /\ resp' = OkReq("portfolio_summary", [currency |-> currency], 200,
                   portfolio_summary_data(currency, tb1, tb2))
  /\ UNCHANGED <<catalogitem, collectionitem, transaction, pricesnapshot,
                 inserted, now, run>>

-----------------------------------------------------------------------------
(* portfolio_summary query by query.  The handler is a plain def, which    *)
(* the framework runs on a worker thread: other requests are served        *)
(* between two of its queries.  run holds the locals of the request under  *)
(* way, the result of each latest-two query, and the queries issued on the *)
(* snapshot collection.                                                     *)

\* The first holding from i on whose catalog_id is not in the cache, or 0.
next_uncached(holdings, i, cache) ==
  LET todo == {k \in i..Len(holdings) :
                 /\ HasCatalog(holdings[k])
                 /\ holdings[k].catalog_id \notin DOMAIN cache}
  IN  IF todo = {} THEN 0 ELSE CHOOSE k \in todo : \A l \in todo : k <= l

\* holdings = list(db["collectionitem"].find({})) and the empty locals.
summary_begin(currency) ==
  /\ run.pc \in {"idle", "done"}
  /\ run' = [pc |-> "prices", currency |-> currency,
             holdings |-> collectionitem, i |-> 1,
             latest_by_catalog |-> EmptyDict, keys |-> <<>>, j |-> 1,
             change24 |-> EmptyDict, latest_two |-> EmptyDict,
             queries |-> <<>>]
  /\ UNCHANGED <<catalogitem, collectionitem, transaction, pricesnapshot,
                 inserted, now, resp>>

\* The first loop up to and including its next query (limit 1), or to its
\* end.
summary_price_step(tb) ==
  /\ run.pc = "prices"
  /\ LET k == next_uncached(run.holdings, run.i, run.latest_by_catalog)
         catalog_id == run.holdings[k].catalog_id
         snap == find_latest(catalog_id, run.currency, 1, tb)
         price == IF Len(snap) > 0 THEN snap[1].price ELSE RZero
     IN  run' = IF k = 0
                  THEN [run EXCEPT !.pc = "changes"]
                  ELSE [run EXCEPT
                          !.i = k + 1,
                          !.latest_by_catalog = @ @@ (catalog_id :> price),
                          !.keys = Append(@, catalog_id),
                          !.queries = Append(@, [catalog_id |-> catalog_id,
                                                 currency |-> run.currency,
                                                 limit |-> 1])]
  /\ UNCHANGED <<catalogitem, collectionitem, transaction, pricesnapshot,
                 inserted, now, resp>>

\* One iteration of the second loop, over the keys of the cache: its query
\* (limit 2) and the change.
summary_change_step(tb) ==
  /\ run.pc = "changes"
  /\ run.j <= Len(run.keys)
  /\ LET cid == run.keys[run.j]
         snaps == find_latest(cid, run.currency, 2, tb)
     IN  run' = [run EXCEPT
                   !.j = @ + 1,
                   !.change24 = @ @@ (cid :> change_of(snaps)),
                   !.latest_two = @ @@ (cid :> snaps),
                   !.queries = Append(@, [catalog_id |-> cid,
                                          currency |-> run.currency,
                                          limit |-> 2])]
  /\ UNCHANGED <<catalogitem, collectionitem, transaction, pricesnapshot,
                 inserted, now, resp>>

\* The loop over the holdings, the movers and the response.
summary_finish ==
  /\ run.pc = "changes"
  /\ run.j > Len(run.keys)
  /\ resp' = OkReq("portfolio_summary", [currency |-> run.currency], 200,
                   summary_result(run.currency, run.holdings,
                                  run.latest_by_catalog, run.change24))
  /\ run' = [run EXCEPT !.pc = "done"]
  /\ UNCHANGED <<catalogitem, collectionitem, transaction, pricesnapshot,
                 inserted, now>>

-----------------------------------------------------------------------------
(* trends_timeseries.                                                      *)

SecondsPerDay == 86400

\* "%04d" and "%02d": the decimal digits of a field, zero-padded.
Digits2(n) == <<(n \div 10) % 10, n % 10>>
Digits4(n) == <<(n \div 1000) % 10, (n \div 100) % 10>> \o Digits2(n)

\* datetime.utcfromtimestamp(epoch).strftime("%Y-%m-%d"): the civil date of
\* the day of epoch, as the string of its ten characters.
strftime_day(epoch) ==
  LET z == (epoch \div SecondsPerDay) + 719468
      era == z \div 146097
      doe == z - era * 146097
      yoe == (doe - doe \div 1460 + doe \div 36524 - doe \div 146096) \div 365
      doy == doe - (365 * yoe + yoe \div 4 - yoe \div 100)
      mp == (5 * doy + 2) \div 153
      d == doy - (153 * mp + 2) \div 5 + 1
      m == IF mp < 10 THEN mp + 3 ELSE mp - 9
      y == yoe + era * 400 + (IF m <= 2 THEN 1 ELSE 0)
  IN  Digits4(y) \o <<"-">> \o Digits2(m) \o <<"-">> \o Digits2(d)

\* The order of str: by the first character that differs, a proper prefix
\* first.  The characters that differ in two dates are digits.
str_less(a, b) ==
  \/ /\ Len(a) < Len(b)
     /\ \A j \in 1..Len(a) : a[j] = b[j]
  \/ \E k \in 1..Min(Len(a), Len(b)) :
       /\ \A j \in 1..(k - 1) : a[j] = b[j]
       /\ a[k] # b[k]
       /\ a[k] < b[k]

\* day_map without the test of epoch against since.
day_map_uncut(currency, since) ==
  LET kept == {i \in 1..Len(pricesnapshot) :
                 pricesnapshot[i].currency = currency}
      day(i) == strftime_day(timestamp(pricesnapshot[i].taken_at))
  IN  [dd \in {day(i) : i \in kept} |->
         LET here == {i \in kept : day(i) = dd}
         IN  [cid \in {pricesnapshot[i].catalog_id : i \in here} |->
                LET last == CHOOSE i \in here :
                              /\ pricesnapshot[i].catalog_id = cid
                              /\ \A j \in here :
                                   pricesnapshot[j].catalog_id = cid => j <= i
                IN  pricesnapshot[last].price]]

\* day_map carrying the price of a catalog_id forward to the later days.
day_map_carried(currency, since) ==
  LET kept == {i \in 1..Len(pricesnapshot) :
                 /\ pricesnapshot[i].currency = currency
                 /\ ~(timestamp(pricesnapshot[i].taken_at) < since)}
      day(i) == strftime_day(timestamp(pricesnapshot[i].taken_at))
  IN  [dd \in {day(i) : i \in kept} |->
         LET here == {i \in kept : day(i) = dd \/ str_less(day(i), dd)}
         IN  [cid \in {pricesnapshot[i].catalog_id : i \in here} |->
                LET last == CHOOSE i \in here :
                              /\ pricesnapshot[i].catalog_id = cid
                              /\ \A j \in here :
                                   pricesnapshot[j].catalog_id = cid => j <= i
                IN  pricesnapshot[last].price]]

\* sorted(day_map.keys())
RECURSIVE sorted_days(_)
sorted_days(days) ==
  IF days = {} THEN <<>>
  ELSE LET least == CHOOSE a \in days : \A b \in days : a = b \/ str_less(a, b)
       IN  <<least>> \o sorted_days(days \ {least})

\* day -> {catalog_id -> price}: the snapshots of the currency taken at or
\* after since, each overwriting an earlier one of its day and catalog_id.
day_map(currency, since) ==
  LET kept == {i \in 1..Len(pricesnapshot) :
                 /\ pricesnapshot[i].currency = currency
                 /\ ~(timestamp(pricesnapshot[i].taken_at) < since)}
      day(i) == strftime_day(timestamp(pricesnapshot[i].taken_at))
  IN  [dd \in {day(i) : i \in kept} |->
         LET here == {i \in kept : day(i) = dd}
         IN  [cid \in {pricesnapshot[i].catalog_id : i \in here} |->
                LET last == CHOOSE i \in here :
                              /\ pricesnapshot[i].catalog_id = cid
                              /\ \A j \in here :
                                   pricesnapshot[j].catalog_id = cid => j <= i
                IN  pricesnapshot[last].price]]

RECURSIVE day_value_from(_, _, _)
day_value_from(holdings, prices, i) ==
  IF i > Len(holdings) THEN RZero
  ELSE LET h == holdings[i]
           rest == day_value_from(holdings, prices, i + 1)
       IN  IF ~HasCatalog(h) THEN rest
           ELSE IF h.catalog_id \notin DOMAIN prices THEN rest
           ELSE RAdd(RMul(prices[h.catalog_id], Int2R(h.quantity)), rest)

trends_timeseries_data(currency, days) ==
  LET since == now - days * SecondsPerDay
      dm == day_map(currency, since)
      holdings == collectionitem
      order == sorted_days(DOMAIN dm)
  IN  [currency |-> currency,
       series |->
         [k \in 1..Len(order) |->
            [date |-> order[k],
             value |-> convert(day_value_from(holdings, dm[order[k]], 1),
                               currency)]]]

trends_timeseries(currency, days) ==
  /\ resp' = OkReq("trends_timeseries",
                   [currency |-> currency, days |-> days, at |-> now], 200,
                   trends_timeseries_data(currency, days))
  /\ UNCHANGED <<catalogitem, collectionitem, transaction, pricesnapshot,
                 inserted, now, run>>

\* Time passes between two requests.
Tick(step) ==
  /\ now' = now + step
  /\ UNCHANGED <<catalogitem, collectionitem, transaction, pricesnapshot,
                 inserted, resp, run>>

-----------------------------------------------------------------------------
(* Bounds and inputs.                                                      *)

\* 2024-02-28T18:00:00Z; time advances in steps of twelve hours.
StartEpoch == 1709143200
Step == 43200
MaxTicks == 2

\* Documents inserted, over all collections.
MaxInserts == 2


Cat(n) == StrOfOid(<<"catalogitem", n>>)
Item(n) == StrOfOid(<<"collectionitem", n>>)

CatalogPayloads == {[category |-> "card_raw", name |-> "Luffy"]}

HoldingBase == [category |-> "card_raw", name |-> "Luffy"]

HoldingPayloads ==
  {HoldingBase,
   SetFields(HoldingBase, [quantity |-> 0]),
   SetFields(HoldingBase, [catalog_id |-> Malformed])}
  \cup {SetFields(HoldingBase, [catalog_id |-> Cat(n), quantity |-> 2,
                                purchase_price |-> Int2R(10)]) :
          n \in {1, MaxInserts + 1}}

ItemIds == {Item(1), Item(2), Malformed}

UpdatePayloads ==
  {[quantity |-> 0, grade |-> "PSA 10"],
   [name |-> "Zoro", catalog_id |-> Cat(1)],
   [purchase_date |-> <<"str", "iso", StartEpoch>>, condition |-> "Mint",
    name |-> "Zoro"],
   [purchase_date |-> <<"str", "bad", 0>>]}

TransactionBase == [type |-> "buy", price_total |-> Int2R(10)]

TransactionPayloads ==
  {TransactionBase, SetFields(TransactionBase, [quantity |-> 0])}
  \cup {SetFields(TransactionBase, [collection_id |-> r]) : r \in ItemIds}

SnapshotPayloads ==
  {[catalog_id |-> Malformed, price |-> Int2R(10)],
   [catalog_id |-> Cat(1), price |-> Rat(-1, 1)],
   [catalog_id |-> Cat(1), price |-> Int2R(15), currency |-> "USD"]}
  \cup {[catalog_id |-> Cat(n), price |-> Int2R(10)] : n \in {1, MaxInserts + 1}}

Currencies == {"EUR", "USD"}

-----------------------------------------------------------------------------
(* The API as a whole: any request, one at a time.                         *)

Init ==
  /\ catalogitem = <<>>
  /\ collectionitem = <<>>
  /\ transaction = <<>>
  /\ pricesnapshot = <<>>
  /\ inserted = [catalogitem |-> 0, collectionitem |-> 0, transaction |-> 0,
                 pricesnapshot |-> 0]
  /\ now = StartEpoch
  /\ resp = Ok("none", 0, None)
  /\ run = Idle

TotalInserted ==
  inserted.catalogitem + inserted.collectionitem + inserted.transaction
    + inserted.pricesnapshot

Next ==
  \/ /\ TotalInserted < MaxInserts
     /\ \E p \in CatalogPayloads : add_catalog_item(p)
  \/ /\ TotalInserted < MaxInserts
     /\ \E p \in HoldingPayloads : add_collection_item(p)
  \/ \E id \in ItemIds : delete_collection_item(id)
  \/ \E id \in ItemIds, p \in UpdatePayloads : update_collection_item(id, p)
  \/ \E id \in ItemIds, p \in UpdatePayloads : update_collection_item_main(id, p)
  \/ /\ TotalInserted < MaxInserts
     /\ \E p \in TransactionPayloads : add_transaction(p)
  \/ /\ TotalInserted < MaxInserts
     /\ \E p \in SnapshotPayloads : add_price_snapshot(p)

Spec == Init /\ [][Next]_vars

-----------------------------------------------------------------------------
(* Claims about the write handlers, under Spec.                            *)

\* C1: after any sequence of create, update and delete requests every
\* holding of the store has quantity >= 1.
C1_QuantityAtLeastOne ==
  \A i \in 1..Len(collectionitem) : collectionitem[i].quantity >= 1

\* A reference names no document of docs: it is not the id, in either
\* letter case, of any of them.
Dangling(docs, ref) ==
  /\ ref # None
  /\ \A i \in 1..Len(docs) : ~(Len(ref) = 3 /\ <<ref[1], ref[2]>> = docs[i]._id)

ClientError == 400..499

\* C6: a create request whose payload references a document that is absent
\* at the time of the call is answered with a client error and leaves every
\* collection as it was.
C6_DanglingCreateRejected ==
  [][/\ \A p \in HoldingPayloads :
          (Dangling(catalogitem, CollectionItem(p).catalog_id)
             /\ add_collection_item(p))
            => (resp'.status \in ClientError /\ UNCHANGED <<store, inserted>>)
     /\ \A p \in TransactionPayloads :
          (Dangling(collectionitem, Transaction(p).collection_id)
             /\ add_transaction(p))
            => (resp'.status \in ClientError /\ UNCHANGED <<store, inserted>>)
     /\ \A p \in SnapshotPayloads :
          (Dangling(catalogitem, PriceSnapshot(p).catalog_id)
             /\ add_price_snapshot(p))
            => (resp'.status \in ClientError /\ UNCHANGED <<store, inserted>>)
    ]_vars

\* A holding creation was refused for its unknown catalog_id while the
\* catalog held another entry.
C6_Witness ==
  /\ resp.op = "add_collection_item"
  /\ resp.status = 400
  /\ resp.body = "catalog_id not found"
  /\ Len(catalogitem) > 0

-----------------------------------------------------------------------------
(* The valuation of a portfolio: a catalog of two entries, holdings and    *)
(* snapshots added in any order, summaries requested in between.           *)

\* Holdings and snapshots inserted.
SumMaxDocs == 4

TwoCatalogEntries ==
  [n \in 1..2 |-> [_id |-> <<"catalogitem", n>>, category |-> "card_raw",
                   name |-> "Luffy"]]

SumHoldingPayloads ==
  {SetFields(HoldingBase, [purchase_price |-> Int2R(54), currency |-> "USD"]),
   SetFields(HoldingBase, [catalog_id |-> Cat(1), quantity |-> 2,
                           purchase_price |-> Int2R(10)]),
   SetFields(HoldingBase, [catalog_id |-> Cat(2), purchase_price |-> Int2R(10),
                           currency |-> "XXX"]),
   SetFields(HoldingBase, [catalog_id |-> Cat(1), quantity |-> 3,
                           purchase_price |-> Int2R(27), currency |-> "usd"])}

SumSnapshotPayloads ==
  {[catalog_id |-> Cat(1), price |-> RZero],
   [catalog_id |-> Cat(1), price |-> Int2R(10)],
   [catalog_id |-> Cat(1), price |-> Int2R(15),
    taken_at |-> datetime(StartEpoch + Step)],
   [catalog_id |-> Cat(1), price |-> Int2R(10),
    taken_at |-> datetime(StartEpoch + Step)],
   [catalog_id |-> Cat(1), price |-> Int2R(10), currency |-> "USD"],
   [catalog_id |-> Cat(2), price |-> Int2R(20)]}

InitSummary ==
  /\ catalogitem = TwoCatalogEntries
  /\ collectionitem = <<>>
  /\ transaction = <<>>
  /\ pricesnapshot = <<>>
  /\ inserted = [catalogitem |-> 2, collectionitem |-> 0, transaction |-> 0,
                 pricesnapshot |-> 0]
  /\ now = StartEpoch
  /\ resp = Ok("none", 0, None)
  /\ run = Idle

NextSummary ==
  \/ /\ Len(collectionitem) + Len(pricesnapshot) < SumMaxDocs
     /\ \E p \in SumHoldingPayloads : add_collection_item(p)
  \/ /\ Len(collectionitem) + Len(pricesnapshot) < SumMaxDocs
     /\ \E p \in SumSnapshotPayloads : add_price_snapshot(p)
  \/ \E c \in Currencies, tb1 \in TieBreaks, tb2 \in TieBreaks :
       portfolio_summary(c, tb1, tb2)

SpecSummary == InitSummary /\ [][NextSummary]_vars

-----------------------------------------------------------------------------
(* Claims about portfolio_summary, under SpecSummary.  A response is       *)
(* compared with the store it was computed from: no request changes the    *)
(* store without replacing the response.                                   *)

IsSummary == resp.op = "portfolio_summary"

RECURSIVE SumSeq(_)
SumSeq(q) == IF Len(q) = 0 THEN RZero ELSE RAdd(Head(q), SumSeq(Tail(q)))

\* The rate of a purchase currency: 1 for EUR and for a code that is no key
\* of the rate table.
RateOf(code) == IF code \in DOMAIN RATES THEN RATES[code] ELSE Int2R(1)

\* The cost of a holding in the reference currency.
RefCost(h) ==
  RDiv(RMul(h.purchase_price, Int2R(h.quantity)), RateOf(h.currency))

\* The snapshots of a catalog reference in a currency, and the newest of a
\* set of snapshots (several when their timestamps are equal).
Matching(cid, cur) ==
  {i \in 1..Len(pricesnapshot) :
     pricesnapshot[i].catalog_id = cid /\ pricesnapshot[i].currency = cur}

Newest(S) ==
  {i \in S : \A j \in S : timestamp(pricesnapshot[j].taken_at)
                            <= timestamp(pricesnapshot[i].taken_at)}

\* The prices that are a latest price of a holding in a currency: 0 when it
\* has no catalog reference or no snapshot.
LatestPrices(h, cur) ==
  IF ~HasCatalog(h) \/ Matching(h.catalog_id, cur) = {}
    THEN {RZero}
    ELSE {pricesnapshot[i].price : i \in Newest(Matching(h.catalog_id, cur))}

EurOnlyStore ==
  /\ \A i \in 1..Len(pricesnapshot) : pricesnapshot[i].currency = "EUR"
  /\ \A i \in 1..Len(collectionitem) : collectionitem[i].currency = "EUR"

\* C2: on a store of EUR snapshots and EUR purchases only, each total of the
\* USD summary is 1.08 times the same total of the EUR summary.
C2_UsdTotalsAreEurTotalsScaled ==
  (IsSummary /\ resp.req.currency = "USD" /\ EurOnlyStore) =>
    \E tb1 \in TieBreaks, tb2 \in TieBreaks :
      LET eur == portfolio_summary_data("EUR", tb1, tb2)
          k == Rat(108, 100)
      IN  /\ resp.body.total_cost = RMul(k, eur.total_cost)
          /\ resp.body.total_value = RMul(k, eur.total_value)
          /\ resp.body.unrealized_pnl = RMul(k, eur.unrealized_pnl)

\* C3: every line item's current_price, current_value and unrealized is the
\* reference-currency figure converted to the requested currency.  The
\* reference price is read either way: the latest EUR price, or the latest
\* price in the requested currency that the totals are summed from.  The
\* unrealized figure is compared for EUR purchases, whose cost needs no
\* normalisation.
C3_LineItemsInOutputCurrency ==
  IsSummary =>
    \A i \in 1..Len(resp.body.items) :
      LET it == resp.body.items[i]
          h == collectionitem[i]
          cur == resp.req.currency
          qty == Int2R(h.quantity)
      IN  \E p \in LatestPrices(h, "EUR") \cup LatestPrices(h, cur) :
            /\ it.current_price = convert(p, cur)
            /\ it.current_value = convert(RMul(p, qty), cur)
            /\ h.currency = "EUR" =>
                 it.unrealized = convert(RSub(RMul(p, qty), RefCost(h)), cur)

\* C4: every line item's unrealized is its current value minus its cost in
\* the reference currency, so the line items' unrealized figures add up to
\* total value minus total cost.
C4_UnrealizedIsValueMinusRefCost ==
  IsSummary =>
    LET items == resp.body.items
        n == Len(items)
    IN  /\ \A i \in 1..n :
             items[i].unrealized
               = RSub(items[i].current_value, RefCost(collectionitem[i]))
        /\ SumSeq([i \in 1..n |-> items[i].unrealized])
             = RSub(SumSeq([i \in 1..n |-> items[i].current_value]),
                    SumSeq([i \in 1..n |-> RefCost(collectionitem[i])]))

\* C5: total cost is the sum of the holdings' costs in the reference
\* currency, total value the sum of latest price x quantity, unrealized their
\* difference, each converted once to the requested currency.
C5_TotalsAreSums ==
  IsSummary =>
    LET cur == resp.req.currency
        n == Len(collectionitem)
        K == {collectionitem[i].catalog_id : i \in 1..n}
        P == UNION {LatestPrices(collectionitem[i], cur) : i \in 1..n}
        PriceOf(h, f) == IF HasCatalog(h) THEN f[h.catalog_id] ELSE RZero
    IN  \E f \in [K -> P] :
          /\ \A i \in 1..n :
               f[collectionitem[i].catalog_id] \in LatestPrices(collectionitem[i], cur)
          /\ LET cost == SumSeq([i \in 1..n |-> RefCost(collectionitem[i])])
                 value == SumSeq([i \in 1..n |->
                            RMul(PriceOf(collectionitem[i], f),
                                 Int2R(collectionitem[i].quantity))])
             IN  /\ resp.body.total_cost = convert(cost, cur)
                 /\ resp.body.total_value = convert(value, cur)
                 /\ resp.body.unrealized_pnl = convert(RSub(value, cost), cur)

\* A USD summary of two holdings or more, one bought in USD, one priced.
C5_Witness ==
  /\ IsSummary
  /\ resp.req.currency = "USD"
  /\ Len(resp.body.items) >= 2
  /\ Truthy(resp.body.total_value)
  /\ \E i \in 1..Len(collectionitem) : collectionitem[i].currency = "USD"

\* C7: the line item of a holding without catalog reference has current
\* value 0 and unrealized -cost, cost being the holding's cost in the
\* reference currency, whatever snapshots exist.
C7_NoCatalogNoValue ==
  IsSummary =>
    \A i \in 1..Len(resp.body.items) :
      ~HasCatalog(collectionitem[i]) =>
        /\ resp.body.items[i].current_value = RZero
        /\ resp.body.items[i].unrealized = RNeg(RefCost(collectionitem[i]))

\* C8: the 24h change of a catalog reference is 0 with fewer than two
\* snapshots in the requested currency or with a previous price of 0, and
\* otherwise (latest - previous) / previous, of the two most recent.
C8_Change24 ==
  IsSummary =>
    \A i \in 1..Len(resp.body.items) :
      HasCatalog(collectionitem[i]) =>
        LET S == Matching(collectionitem[i].catalog_id, resp.req.currency)
            ch == resp.body.items[i].change24
            Price(j) == pricesnapshot[j].price
        IN  IF Cardinality(S) < 2 THEN ch = RZero
            ELSE \E a \in Newest(S) : \E b \in Newest(S \ {a}) :
                   ch = IF Price(b) = RZero THEN RZero
                        ELSE RDiv(RSub(Price(a), Price(b)), Price(b))

\* A summary reporting a change that is not 0 for a catalog reference of
\* three snapshots.
C8_Witness ==
  /\ IsSummary
  /\ \E i \in 1..Len(resp.body.items) :
       /\ HasCatalog(collectionitem[i])
       /\ Truthy(resp.body.items[i].change24)
       /\ Cardinality(Matching(collectionitem[i].catalog_id,
                               resp.req.currency)) = 3

-----------------------------------------------------------------------------
(* The movers list: a store of two catalog entries with two EUR snapshots  *)
(* each (10 then 15, and 20 then 10), to which holdings are added.         *)

MovMaxHoldings == 6

MovSnapshotPayloads ==
  <<[catalog_id |-> Cat(1), price |-> Int2R(10),
     taken_at |-> datetime(StartEpoch)],
    [catalog_id |-> Cat(1), price |-> Int2R(15),
     taken_at |-> datetime(StartEpoch + Step)],
    [catalog_id |-> Cat(2), price |-> Int2R(20),
     taken_at |-> datetime(StartEpoch)],
    [catalog_id |-> Cat(2), price |-> Int2R(10),
     taken_at |-> datetime(StartEpoch + Step)]>>

\* Keys in EUR: 30 x 1/2 = 15, 30 x 1/2 = 15, 20 x 1/2 = 10; in USD, where
\* no snapshot matches, 0.
MovHoldingPayloads ==
  {SetFields(HoldingBase, [catalog_id |-> Cat(1), quantity |-> 2]),
   SetFields(HoldingBase, [catalog_id |-> Cat(2), quantity |-> 3]),
   SetFields(HoldingBase, [catalog_id |-> Cat(2), quantity |-> 2])}

InitMovers ==
  /\ now = StartEpoch + Step
  /\ catalogitem = TwoCatalogEntries
  /\ collectionitem = <<>>
  /\ transaction = <<>>
  /\ pricesnapshot =
       [n \in 1..Len(MovSnapshotPayloads) |->
          SetFields(PriceSnapshot(MovSnapshotPayloads[n]),
                    [_id |-> <<"pricesnapshot", n>>])]
  /\ inserted = [catalogitem |-> 2, collectionitem |-> 0, transaction |-> 0,
                 pricesnapshot |-> Len(MovSnapshotPayloads)]
  /\ resp = Ok("none", 0, None)
  /\ run = Idle

NextMovers ==
  \/ /\ Len(collectionitem) < MovMaxHoldings
     /\ \E p \in MovHoldingPayloads : add_collection_item(p)
  \/ \E c \in Currencies, tb1 \in TieBreaks, tb2 \in TieBreaks :
       portfolio_summary(c, tb1, tb2)

SpecMovers == InitMovers /\ [][NextMovers]_vars

\* The sort key of the i-th line item of the response, and the number of
\* line items that a stable descending sort places before it.
KeyOf(i) ==
  RAbs(RMul(resp.body.items[i].current_value, resp.body.items[i].change24))

RankOf(i) ==
  Cardinality({j \in 1..Len(resp.body.items) :
                 \/ ~RLeq(KeyOf(j), KeyOf(i))
                 \/ KeyOf(j) = KeyOf(i) /\ j < i})

\* C9: biggest_movers is the first min(5, n) line items in descending order
\* of |current_value x change24|, line items of equal key in holding order.
C9_BiggestMovers ==
  IsSummary =>
    LET n == Len(resp.body.items)
        movers == resp.body.biggest_movers
    IN  /\ Len(movers) = IF n < 5 THEN n ELSE 5
        /\ \A i \in 1..n :
             RankOf(i) < 5 => movers[RankOf(i) + 1] = resp.body.items[i]

\* A summary of more than five holdings where the sort moves a later holding
\* ahead of an earlier one, two holdings with the same key that is not 0 are
\* both listed, and a holding with a key that is not 0 is cut off.
C9_Witness ==
  /\ IsSummary
  /\ Len(resp.body.items) > 5
  /\ \E i, j \in 1..Len(resp.body.items) :
       i < j /\ RankOf(j) < RankOf(i) /\ RankOf(i) < 5
  /\ \E i, j \in 1..Len(resp.body.items) :
       i < j /\ KeyOf(i) = KeyOf(j) /\ Truthy(KeyOf(i)) /\ RankOf(j) < 5
  /\ \E i \in 1..Len(resp.body.items) : RankOf(i) >= 5 /\ Truthy(KeyOf(i))

-----------------------------------------------------------------------------
(* The daily series: snapshots are recorded while time passes, stamped     *)
(* with the time of the request or with a time of the client's.            *)

TrendMaxDocs == 3

TrendSnapshotPayloads ==
  {[catalog_id |-> Cat(1), price |-> Int2R(10)],
   [catalog_id |-> Cat(2), price |-> Int2R(20)],
   [catalog_id |-> Cat(1), price |-> Int2R(15),
    taken_at |-> datetime(StartEpoch + 3 * Step)],
   [catalog_id |-> Cat(1), price |-> Int2R(12),
    taken_at |-> datetime(StartEpoch - 2 * Step)]}

TrendHoldingPayloads ==
  {SetFields(HoldingBase, [catalog_id |-> Cat(1), quantity |-> 2])}

LookbackDays == {-1, 0, 1}

InitTrends ==
  /\ now = StartEpoch
  /\ catalogitem = TwoCatalogEntries
  /\ collectionitem = <<>>
  /\ transaction = <<>>
  /\ pricesnapshot = <<>>
  /\ inserted = [catalogitem |-> 2, collectionitem |-> 0, transaction |-> 0,
                 pricesnapshot |-> 0]
  /\ resp = Ok("none", 0, None)
  /\ run = Idle

NextTrends ==
  \/ /\ Len(collectionitem) + Len(pricesnapshot) < TrendMaxDocs
     /\ \E p \in TrendHoldingPayloads : add_collection_item(p)
  \/ /\ Len(collectionitem) + Len(pricesnapshot) < TrendMaxDocs
     /\ \E p \in TrendSnapshotPayloads : add_price_snapshot(p)
  \/ /\ now < StartEpoch + MaxTicks * Step
     /\ Tick(Step)
  \/ \E days \in LookbackDays : trends_timeseries("EUR", days)

SpecTrends == InitTrends /\ [][NextTrends]_vars

IsTrends == resp.op = "trends_timeseries"

\* The number of the day of a date "YYYY-MM-DD", counted from 1970-01-01.
DayNumber(date) ==
  LET year == 1000 * date[1] + 100 * date[2] + 10 * date[3] + date[4]
      month == 10 * date[6] + date[7]
      dom == 10 * date[9] + date[10]
      y == IF month <= 2 THEN year - 1 ELSE year
      era == y \div 400
      yoe == y - era * 400
      mp == (month + 9) % 12
      doy == (153 * mp + 2) \div 5 + dom - 1
      doe == yoe * 365 + yoe \div 4 - yoe \div 100 + doy
  IN  era * 146097 + doe - 719468

\* C10: the dates of the series are strictly increasing, and none is before
\* the calendar day of the request's time minus lookbackDays days.
C10_TrendDates ==
  IsTrends =>
    LET series == resp.body.series
        cutoff == (resp.req.at - resp.req.days * 86400) \div 86400
    IN  /\ \A k \in 1..(Len(series) - 1) :
             DayNumber(series[k].date) < DayNumber(series[k + 1].date)
        /\ \A k \in 1..Len(series) : DayNumber(series[k].date) >= cutoff

\* A series of two days on either side of the end of a month, the later
\* day's snapshot recorded first, computed over a store that holds a snapshot
\* older than the cutoff.
C10_Witness ==
  /\ IsTrends
  /\ Len(resp.body.series) = 2
  /\ resp.body.series[1].date[7] # resp.body.series[2].date[7]
  /\ \E i, j \in 1..Len(pricesnapshot) :
       /\ i < j
       /\ timestamp(pricesnapshot[j].taken_at)
            < timestamp(pricesnapshot[i].taken_at)
       /\ strftime_day(timestamp(pricesnapshot[i].taken_at))
            = resp.body.series[2].date
       /\ strftime_day(timestamp(pricesnapshot[j].taken_at))
            = resp.body.series[1].date
  /\ \E i \in 1..Len(pricesnapshot) :
       timestamp(pricesnapshot[i].taken_at)
         < resp.req.at - resp.req.days * 86400

-----------------------------------------------------------------------------
(* Further claims about portfolio_summary, under SpecSummary.              *)

\* No snapshot, of any currency, is of a catalog reference of a holding.
NoSnapshotOfAnyHolding ==
  \A i \in 1..Len(collectionitem), j \in 1..Len(pricesnapshot) :
    pricesnapshot[j].catalog_id # collectionitem[i].catalog_id

\* C11: when no snapshot exists for any catalog reference of the holdings,
\* the summary succeeds with total value 0, unrealized equal to minus the
\* total cost, and change 0 for every entry of the movers list.
C11_NoSnapshots ==
  (IsSummary /\ NoSnapshotOfAnyHolding) =>
    /\ resp.status = 200
    /\ resp.body.total_value = RZero
    /\ resp.body.unrealized_pnl = RNeg(resp.body.total_cost)
    /\ \A k \in 1..Len(resp.body.biggest_movers) :
         resp.body.biggest_movers[k].change24 = RZero

\* A USD summary of two holdings that cost something, one of them with a
\* catalog reference, over a store whose only snapshots are of another
\* catalog entry.
C11_Witness ==
  /\ IsSummary
  /\ NoSnapshotOfAnyHolding
  /\ resp.req.currency = "USD"
  /\ Len(pricesnapshot) > 0
  /\ Len(resp.body.biggest_movers) = 2
  /\ \E i \in 1..Len(collectionitem) : HasCatalog(collectionitem[i])
  /\ \E i \in 1..Len(collectionitem) : ~HasCatalog(collectionitem[i])
  /\ Truthy(resp.body.total_cost)

-----------------------------------------------------------------------------
(* Both read requests beside the writes they read from.                    *)

AnaMaxDocs == 3

NextAnalytics ==
  \/ /\ Len(collectionitem) + Len(pricesnapshot) < AnaMaxDocs
     /\ \E p \in TrendHoldingPayloads : add_collection_item(p)
  \/ /\ Len(collectionitem) + Len(pricesnapshot) < AnaMaxDocs
     /\ \E p \in TrendSnapshotPayloads : add_price_snapshot(p)
  \/ /\ now < StartEpoch + MaxTicks * Step
     /\ Tick(Step)
  \/ \E c \in Currencies, tb1 \in TieBreaks, tb2 \in TieBreaks :
       portfolio_summary(c, tb1, tb2)
  \/ \E c \in Currencies, days \in LookbackDays : trends_timeseries(c, days)

SpecAnalytics == InitTrends /\ [][NextAnalytics]_vars

\* C12: a step that answers a portfolio_summary or trends_timeseries request
\* leaves the catalog, the holdings, the transactions and the price snapshots
\* as they were.
C12_AnalyticsPerformNoWrites ==
  [][resp'.op \in {"portfolio_summary", "trends_timeseries"}
       => UNCHANGED <<catalogitem, collectionitem, transaction, pricesnapshot,
                      inserted>>]_vars

\* A summary in a currency in which a held catalog reference has no snapshot,
\* over a store that holds snapshots.
C12_Witness ==
  /\ IsSummary
  /\ Len(pricesnapshot) > 0
  /\ \E i \in 1..Len(collectionitem) :
       /\ HasCatalog(collectionitem[i])
       /\ Matching(collectionitem[i].catalog_id, resp.req.currency) = {}

-----------------------------------------------------------------------------
(* convert as a function of its arguments.                                 *)

MaxAmount == 3

\* Amounts in halves, of either sign.
Amounts == {Rat(n, 2) : n \in (-MaxAmount)..MaxAmount}

\* The currency codes of the rate table, and the spellings in either letter
\* case of three of them and of a code that the table does not have.
CaseClasses ==
  {{"eur", "euR", "eUr", "eUR", "Eur", "EuR", "EUr", "EUR"},
   {"usd", "usD", "uSd", "uSD", "Usd", "UsD", "USd", "USD"},
   {"gbp", "gbP", "gBp", "gBP", "Gbp", "GbP", "GBp", "GBP"},
   {"xxx", "xxX", "xXx", "xXX", "Xxx", "XxX", "XXx", "XXX"},
   {"JPY"}, {"BTC"}, {"ETH"}}

Codes == UNION CaseClasses

call_convert(amount, code) ==
  /\ resp' = OkReq("convert", [amount |-> amount, code |-> code], 200,
                   convert(amount, code))
  /\ UNCHANGED <<catalogitem, collectionitem, transaction, pricesnapshot,
                 inserted, now, run>>

NextConvert == \E amount \in Amounts, code \in Codes : call_convert(amount, code)

SpecConvert == Init /\ [][NextConvert]_vars

IsConvert == resp.op = "convert"

\* C13: convert returns the amount unchanged for a code that is in the rate
\* table in no letter case, and the same result for every letter case of a
\* code.
C13_ConvertCaseInsensitive ==
  IsConvert =>
    \A K \in CaseClasses :
      resp.req.code \in K =>
        /\ K \cap DOMAIN RATES = {} => resp.body = resp.req.amount
        /\ \A other \in K : convert(resp.req.amount, other) = resp.body

\* A conversion of an amount that is not 0 by a code written in mixed case,
\* to which a rate other than 1 was applied.
C13_Witness ==
  /\ IsConvert
  /\ resp.req.code = "uSd"
  /\ Truthy(resp.req.amount)
  /\ resp.body = RMul(resp.req.amount, Rat(108, 100))

-----------------------------------------------------------------------------
(* The values of the daily series: snapshots are recorded, while time      *)
(* passes, over four holdings: two of the first catalog entry, one of the  *)
(* second and one without catalog reference.                                *)

SerMaxSnapshots == 3

SerHoldingPayloads ==
  <<SetFields(HoldingBase, [catalog_id |-> Cat(1), quantity |-> 2]),
    SetFields(HoldingBase, [quantity |-> 4, purchase_price |-> Int2R(5)]),
    SetFields(HoldingBase, [catalog_id |-> Cat(2), quantity |-> 3]),
    SetFields(HoldingBase, [catalog_id |-> Cat(1)])>>

SerSnapshotPayloads ==
  TrendSnapshotPayloads
    \cup {[catalog_id |-> Cat(2), price |-> Int2R(7), currency |-> "USD"]}

InitSeries ==
  /\ now = StartEpoch
  /\ catalogitem = TwoCatalogEntries
  /\ collectionitem =
       [n \in 1..Len(SerHoldingPayloads) |->
          SetFields(CollectionItem(SerHoldingPayloads[n]),
                    [_id |-> <<"collectionitem", n>>])]
  /\ transaction = <<>>
  /\ pricesnapshot = <<>>
  /\ inserted = [catalogitem |-> 2,
                 collectionitem |-> Len(SerHoldingPayloads),
                 transaction |-> 0, pricesnapshot |-> 0]
  /\ resp = Ok("none", 0, None)
  /\ run = Idle

NextSeries ==
  \/ /\ Len(pricesnapshot) < SerMaxSnapshots
     /\ \E p \in SerSnapshotPayloads : add_price_snapshot(p)
  \/ /\ now < StartEpoch + MaxTicks * Step
     /\ Tick(Step)
  \/ \E c \in Currencies, days \in LookbackDays : trends_timeseries(c, days)

SpecSeries == InitSeries /\ [][NextSeries]_vars

\* The snapshots in the bucket of a date of the series: those of the
\* requested currency, not older than the cutoff, taken on that day.
Bucket(date) ==
  {i \in 1..Len(pricesnapshot) :
     /\ pricesnapshot[i].currency = resp.req.currency
     /\ timestamp(pricesnapshot[i].taken_at)
          >= resp.req.at - resp.req.days * 86400
     /\ timestamp(pricesnapshot[i].taken_at) \div 86400 = DayNumber(date)}

\* C14: the value of each day of the series is, before conversion, the sum
\* of price x quantity over the holdings whose catalog reference has a
\* snapshot in the day's bucket, at a price of that bucket and the same for
\* all holdings of a reference; other holdings add nothing, and no day is
\* emitted with an empty bucket.
C14_DayValues ==
  IsTrends =>
    \A k \in 1..Len(resp.body.series) :
      LET B == Bucket(resp.body.series[k].date)
          K == {pricesnapshot[i].catalog_id : i \in B}
          P == {pricesnapshot[i].price : i \in B}
          Counted(h) == HasCatalog(h) /\ h.catalog_id \in K
          n == Len(collectionitem)
      IN  /\ B # {}
          /\ \E f \in [K -> P] :
               /\ \A c \in K : \E i \in B :
                    pricesnapshot[i].catalog_id = c /\ pricesnapshot[i].price = f[c]
               /\ resp.body.series[k].value
                    = convert(SumSeq([i \in 1..n |->
                                IF Counted(collectionitem[i])
                                  THEN RMul(f[collectionitem[i].catalog_id],
                                            Int2R(collectionitem[i].quantity))
                                  ELSE RZero]),
                              resp.req.currency)

\* A series of two days, the first with a price of the first catalog entry
\* only and the second with a price of the second only, so that the second
\* day counts the holding of the second entry alone.
C14_Witness ==
  /\ IsTrends
  /\ Len(resp.body.series) = 2
  /\ {pricesnapshot[i].catalog_id : i \in Bucket(resp.body.series[1].date)}
       = {Cat(1)}
  /\ {pricesnapshot[i].catalog_id : i \in Bucket(resp.body.series[2].date)}
       = {Cat(2)}
  /\ Truthy(resp.body.series[1].value)
  /\ Truthy(resp.body.series[2].value)

-----------------------------------------------------------------------------
(* A portfolio_summary request served query by query while snapshots are   *)
(* recorded, over the four holdings of the daily series.                    *)

RunMaxSnapshots == 3

RunSnapshotPayloads ==
  {[catalog_id |-> Cat(1), price |-> Int2R(10),
    taken_at |-> datetime(StartEpoch)],
   [catalog_id |-> Cat(1), price |-> Int2R(15),
    taken_at |-> datetime(StartEpoch + Step)],
   [catalog_id |-> Cat(1), price |-> Int2R(12),
    taken_at |-> datetime(StartEpoch + Step)],
   [catalog_id |-> Cat(2), price |-> Int2R(20),
    taken_at |-> datetime(StartEpoch)]}

NextRun ==
  \/ /\ Len(pricesnapshot) < RunMaxSnapshots
     /\ \E p \in RunSnapshotPayloads : add_price_snapshot(p)
  \/ \E c \in Currencies : summary_begin(c)
  \/ \E tb \in TieBreaks : summary_price_step(tb)
  \/ \E tb \in TieBreaks : summary_change_step(tb)
  \/ summary_finish

SpecRun == InitSeries /\ [][NextRun]_vars

\* The distinct catalog references of the holdings that a run read.
RefsOf(holdings) ==
  {holdings[i].catalog_id : i \in {k \in 1..Len(holdings) : HasCatalog(holdings[k])}}

\* C15: a finished portfolio_summary run has queried the snapshots once per
\* distinct catalog reference of the holdings, and no (catalog reference,
\* currency) pair more than once.
C15_OneQueryPerReference ==
  run.pc = "done" =>
    /\ Len(run.queries) = Cardinality(RefsOf(run.holdings))
    /\ \A a, b \in 1..Len(run.queries) :
         (/\ run.queries[a].catalog_id = run.queries[b].catalog_id
          /\ run.queries[a].currency = run.queries[b].currency) => a = b

\* No two snapshots of a catalog reference and currency were taken at the
\* same time, so that the order of a query's results is determined.
DistinctTimes ==
  \A i, j \in 1..Len(pricesnapshot) :
    (/\ pricesnapshot[i].catalog_id = pricesnapshot[j].catalog_id
     /\ pricesnapshot[i].currency = pricesnapshot[j].currency
     /\ pricesnapshot[i].taken_at = pricesnapshot[j].taken_at) => i = j

\* C17: whatever snapshots were recorded during the run, the current_price
\* of every line item with a catalog reference is the price of the newest
\* of the snapshots that the reference's change24 was computed from.
C17_PriceMatchesLatestTwo ==
  (run.pc = "done" /\ IsSummary /\ DistinctTimes) =>
    \A i \in 1..Len(resp.body.items) :
      HasCatalog(run.holdings[i]) =>
        LET snaps == run.latest_two[run.holdings[i].catalog_id]
        IN  Len(snaps) > 0 => resp.body.items[i].current_price = snaps[1].price

-----------------------------------------------------------------------------
(* The frame of update_collection_item: requests on a store of one catalog *)
(* entry and two holdings, one of them of the catalog entry.               *)

UpdHoldingPayloads ==
  <<SetFields(HoldingBase, [catalog_id |-> Cat(1), quantity |-> 2,
                            purchase_price |-> Int2R(10)]),
    HoldingBase>>

InitUpdate ==
  /\ now = StartEpoch
  /\ catalogitem = SubSeq(TwoCatalogEntries, 1, 1)
  /\ collectionitem =
       [n \in 1..Len(UpdHoldingPayloads) |->
          SetFields(CollectionItem(UpdHoldingPayloads[n]),
                    [_id |-> <<"collectionitem", n>>])]
  /\ transaction = <<>>
  /\ pricesnapshot = <<>>
  /\ inserted = [catalogitem |-> 1,
                 collectionitem |-> Len(UpdHoldingPayloads),
                 transaction |-> 0, pricesnapshot |-> 0]
  /\ resp = Ok("none", 0, None)
  /\ run = Idle

NextUpdate ==
  \/ \E item_id \in ItemIds, payload \in UpdatePayloads :
       update_collection_item(item_id, payload)
  \/ \E item_id \in ItemIds, payload \in UpdatePayloads :
       update_collection_item_main(item_id, payload)
  \/ \E item_id \in ItemIds : delete_collection_item(item_id)

SpecUpdate == InitUpdate /\ [][NextUpdate]_vars

\* The fields that an update may change: cost, condition, quantity,
\* currency, grading and date.
MutableFields ==
  {"purchase_price", "purchase_date", "condition", "is_graded",
   "grade_service", "grade_score", "grade_label", "grade", "quantity",
   "currency"}

\* The holdings that an id string addresses.
Addressed(item_id) ==
  {i \in 1..Len(collectionitem) :
     /\ Len(item_id) = 3
     /\ collectionitem[i]._id = <<item_id[1], item_id[2]>>}

\* The effect allowed to an update request with this id and payload.
UpdateFrame(item_id, payload) ==
  IF DOMAIN payload \cap MutableFields = {} \/ Addressed(item_id) = {}
    THEN resp'.status \in ClientError /\ UNCHANGED <<store, inserted>>
    ELSE /\ UNCHANGED <<catalogitem, transaction, pricesnapshot, inserted>>
         /\ Len(collectionitem') = Len(collectionitem)
         /\ \A i \in 1..Len(collectionitem) :
              IF i \in Addressed(item_id)
                THEN \A k \in (DOMAIN collectionitem[i]
                                 \cup DOMAIN collectionitem'[i]) \ MutableFields :
                       /\ k \in DOMAIN collectionitem[i]
                       /\ k \in DOMAIN collectionitem'[i]
                       /\ collectionitem'[i][k] = collectionitem[i][k]
                ELSE collectionitem'[i] = collectionitem[i]

\* C16: an update changes nothing but mutable fields of the addressed
\* holding; with no mutable field in the payload, or an id that addresses no
\* holding, it is rejected with a client error and changes nothing.
C16_UpdateFrame ==
  [][\A item_id \in ItemIds, payload \in UpdatePayloads :
       /\ update_collection_item(item_id, payload)
            => UpdateFrame(item_id, payload)
       /\ update_collection_item_main(item_id, payload)
            => UpdateFrame(item_id, payload)]_vars

\* An accepted update of the first of two holdings, by a payload that also
\* named a field that is not mutable: the condition was set, the name was
\* not, and the catalog reference is the one the holding was created with.
C16_Witness ==
  /\ resp.op = "update_collection_item"
  /\ resp.status = 200
  /\ resp.body.condition = "Mint"
  /\ resp.body.name = "Luffy"
  /\ resp.body.catalog_id = Cat(1)
  /\ Len(collectionitem) = 2

====
